---- MODULE Spec2Model ----
(***************************************************************************)
(* A model of twitch-tui-client: the list projector                        *)
(* (TwitchResponse::to_widgets), the quality selection of Node::select,    *)
(* format_seconds and the page navigation of main's event loop.            *)
(***************************************************************************)
EXTENDS Integers, Sequences, FiniteSets, TLC

VARIABLES
    response,   \* the decoded TwitchResponse handed to to_widgets
    widgets,    \* (list, info_vec): what to_widgets returned for it
    qualities,  \* the quality ladder; its first entry is changed by + and -
    selected,   \* the Node that select is called on
    renditions, \* what the server holds for it: a clip's videoQualities, a VOD's renditions
    played,     \* what select handed to the player
    returned,   \* what select returned
    seconds,    \* the argument of format_seconds
    formatted,  \* the text format_seconds returned for it
    page,       \* the current Page followed by the chain of its `previous` pages
    list_state, \* the selected row of the list (ListState::selected)
    status,     \* whether the event loop runs, has panicked or was quit
    key,        \* the key the event loop handled last
    requested,  \* the request that key sent
    query,      \* the text typed into the last search prompt
    terminal,   \* whether raw mode is on and the alternate screen is entered
    overlay,    \* whether play_stream's loop runs, has returned or has panicked
    tab,        \* the tab of the chat overlay that is shown
    chat,       \* the queue of chat lines
    log,        \* the queue of log lines
    info,       \* the list of room settings
    height,     \* the height of the terminal
    event       \* the branch of the overlay's select that ran last

projVars == <<response, widgets>>
selVars == <<qualities, selected, renditions, played, returned>>
fmtVars == <<seconds, formatted>>
navVars == <<page, list_state, status, key, requested, query, terminal>>
chatVars == <<overlay, tab, chat, log, info, height, event>>
vars ==
    <<response, widgets, qualities, selected, renditions, played, returned, seconds, formatted,
      page, list_state, status, key, requested, query, terminal,
      overlay, tab, chat, log, info, height, event>>

(***************************************************************************)
(* Bounds of the model.                                                    *)
(***************************************************************************)
\* edges of all five search groups together
MaxSearchEdges == 2
\* sections of a PersonalSection payload, and their channels together
MaxSections == 2
MaxSectionItems == 2
\* shelves of a Shelves payload, and their title tokens and entries together
MaxShelves == 2
MaxShelfParts == 3
\* live streams of a category page
MaxStreams == 2
\* entries of the quality ladder, and renditions of a clip or a VOD
MaxLadder == 2
MaxRenditions == 2
\* how far around each boundary of format_seconds the arguments range
FormatWindow == 12
\* pages on the navigation stack, and entries of a listing the server sends
MaxDepth == 3
MaxListing == 2
\* rows of the terminal while the listing is shown
MaxTerminalHeight == 10
\* rows of the terminal while the chat overlay runs
MaxHeight == 5
\* lines a queue of the overlay is followed up to, and entries of its Info list
MaxQueue == 3
MaxInfo == 7

(***************************************************************************)
(* Generic helpers.                                                        *)
(***************************************************************************)
RECURSIVE SeqsUpTo(_, _)
\* every sequence over S of length at most n
SeqsUpTo(S, n) ==
    IF n = 0 THEN {<<>>}
    ELSE LET shorter == SeqsUpTo(S, n - 1)
         IN  shorter \cup {Append(s, x) : s \in {t \in shorter : Len(t) = n - 1}, x \in S}

RECURSIVE SeqsOfLen(_, _)
\* every sequence over S of length exactly n
SeqsOfLen(S, n) ==
    IF n = 0 THEN {<<>>}
    ELSE {Append(s, x) : s \in SeqsOfLen(S, n - 1), x \in S}

RECURSIVE SumTo(_, _)
\* counts[1] + ... + counts[i]
SumTo(counts, i) == IF i = 0 THEN 0 ELSE counts[i] + SumTo(counts, i - 1)

\* the i-th piece of flat, cut into pieces of the lengths counts[1], counts[2], ...
Piece(flat, counts, i) ==
    SubSeq(flat, SumTo(counts, i - 1) + 1, SumTo(counts, i))

(***************************************************************************)
(* Node (structs.rs): the selectable entry attached to a row.  Only the    *)
(* field select reads (login, slug, VOD id, category name) is kept.        *)
(***************************************************************************)
NodeNone == [type |-> "None", key |-> ""]
NodeStream(login) == [type |-> "Stream", key |-> login]
NodeVideo(id) == [type |-> "Video", key |-> id]
NodeClip(slug) == [type |-> "Clip", key |-> slug]
NodeGame(name) == [type |-> "Game", key |-> name]

\* A list label is a line of spans (ratatui Spans); a span keeps its content and
\* the two style modifiers the projector sets.
Span(content, underlined, bold) ==
    [content |-> content, underlined |-> underlined, bold |-> bold]

\* header(content): one underlined span
header(content) == <<Span(content, TRUE, FALSE)>>

\* content.into(): one unstyled span
plain(content) == <<Span(content, FALSE, FALSE)>>

(***************************************************************************)
(* The search projection: five score buckets, filled group by group.       *)
(***************************************************************************)
NumBuckets == 5

\* let mut items_to_add = [(Vec::new(), Vec::new()); 5]
items_to_add_init ==
    [ok |-> TRUE, b |-> [i \in 0..(NumBuckets - 1) |-> [titles |-> <<>>, info |-> <<>>]]]

\* an index out of the array's bounds (or score - 1 below zero) panics
Panicked == [ok |-> FALSE, b |-> [i \in 0..(NumBuckets - 1) |-> [titles |-> <<>>, info |-> <<>>]]]

\* items_to_add[idx].0.push(t)
push_title(items, idx, t) ==
    IF ~items.ok \/ idx \notin 0..(NumBuckets - 1) THEN Panicked
    ELSE [items EXCEPT !.b[idx].titles = Append(@, t)]

\* items_to_add[idx].1.push((detail, node))
push_info(items, idx, detail, node) ==
    IF ~items.ok \/ idx \notin 0..(NumBuckets - 1) THEN Panicked
    ELSE [items EXCEPT !.b[idx].info = Append(@, [detail |-> detail, node |-> node])]

\* user_node taking a live user's latest video
user_node_video_first(user) ==
    IF user.startedAt
    THEN IF Len(user.latestVideo) # 0 THEN NodeVideo(user.latestVideo[1])
         ELSE IF user.stream THEN NodeStream(user.login)
         ELSE NodeNone
    ELSE NodeNone

\* SearchForEdgeUser::add_items_to: the node chosen for a channel entry
user_node(user) ==
    IF user.startedAt
    THEN IF user.stream THEN NodeStream(user.login)
         ELSE IF Len(user.latestVideo) = 0 THEN NodeNone
         ELSE NodeVideo(user.latestVideo[1])
    ELSE NodeNone

\* the detail block that goes with the node
user_detail(user) ==
    IF user.startedAt
    THEN IF user.stream THEN "live"
         ELSE IF Len(user.latestVideo) = 0 THEN "channel"
         ELSE "latest VOD"
    ELSE "channel"

\* add_items_to with the top clip's label pushed and its (detail, node) pair left out
add_items_to_label_only(user, items, idx) ==
    LET a == push_title(items, idx, plain(user.displayName))
        b == push_info(a, idx, user_detail(user), user_node(user))
    IN  IF Len(user.topClip) = 1 THEN push_title(b, idx, plain("| Top clip")) ELSE b

\* SearchForEdgeUser::add_items_to
add_items_to(user, items, idx) ==
    LET a == push_title(items, idx, plain(user.displayName))
        b == push_info(a, idx, user_detail(user), user_node(user))
    IN  IF Len(user.topClip) = 1
        THEN push_info(push_title(b, idx, plain("| Top clip")), idx, "clip",
                       NodeClip(user.topClip[1]))
        ELSE b

RECURSIVE add_users(_, _, _)
\* for edge in group.edges { edge.item.add_items_to(&mut items_to_add[score - 1]) }
add_users(edges, items, idx) ==
    IF edges = <<>> THEN items
    ELSE add_users(Tail(edges), add_items_to(Head(edges), items, idx), idx)

\* the Channels and "Live channels with tag" blocks
users_block(items, group, title) ==
    IF Len(group.edges) # 0
    THEN LET idx == group.score - 1
             h == push_info(push_title(items, idx, header(title)), idx, "total", NodeNone)
         IN  add_users(group.edges, h, idx)
    ELSE items

RECURSIVE add_games(_, _, _)
add_games(edges, items, idx) ==
    IF edges = <<>> THEN items
    ELSE LET e == Head(edges)
             a == push_title(items, idx, plain(e.displayName))
             b == push_info(a, idx, "game", NodeGame(e.name))
         IN  add_games(Tail(edges), b, idx)

\* games_block without the test for an empty edge list
games_block_unguarded(items, group) ==
    LET idx == group.score - 1
        h == push_info(push_title(items, idx, header("Categories")), idx, "total", NodeNone)
    IN  add_games(group.edges, h, idx)

\* the Categories block
games_block(items, group) ==
    IF Len(group.edges) # 0
    THEN LET idx == group.score - 1
             h == push_info(push_title(items, idx, header("Categories")), idx, "total", NodeNone)
         IN  add_games(group.edges, h, idx)
    ELSE items

RECURSIVE add_videos(_, _, _)
add_videos(edges, items, idx) ==
    IF edges = <<>> THEN items
    ELSE LET e == Head(edges)
             a == push_title(items, idx, plain(e.title))
             b == push_info(a, idx, "video", NodeVideo(e.id))
         IN  add_videos(Tail(edges), b, idx)

\* videos_block without the test for an empty edge list
videos_block_unguarded(items, group) ==
    LET idx == group.score - 1
        h == push_info(push_title(items, idx, header("Past videos")), idx, "total", NodeNone)
    IN  add_videos(group.edges, h, idx)

\* the "Past videos" block
videos_block(items, group) ==
    IF Len(group.edges) # 0
    THEN LET idx == group.score - 1
             h == push_info(push_title(items, idx, header("Past videos")), idx, "total", NodeNone)
         IN  add_videos(group.edges, h, idx)
    ELSE items

RECURSIVE add_related(_, _, _)
add_related(edges, items, idx) ==
    IF edges = <<>> THEN items
    ELSE LET e == Head(edges)
             a == push_title(items, idx, plain(e.displayName))
             b == push_info(a, idx, "related", NodeStream(e.login))
         IN  add_related(Tail(edges), b, idx)

\* the "People searching also watch:" block
related_block(items, group) ==
    IF Len(group.edges) # 0
    THEN LET idx == group.score - 1
             h == push_info(push_title(items, idx, header("People searching also watch:")),
                            idx, "empty", NodeNone)
         IN  add_related(group.edges, h, idx)
    ELSE items

RECURSIVE extend_buckets_descending(_, _, _)
\* extend_buckets with the buckets taken from the highest score down
extend_buckets_descending(b, i, acc) ==
    IF i = NumBuckets THEN acc
    ELSE extend_buckets_descending(b, i + 1,
            [acc EXCEPT !.titles = b[i].titles \o @, !.info = b[i].info \o @])

RECURSIVE extend_buckets(_, _, _)
\* for items in items_to_add { titles.extend(items.0); info.extend(items.1) }
extend_buckets(b, i, acc) ==
    IF i = NumBuckets THEN acc
    ELSE extend_buckets(b, i + 1,
            [acc EXCEPT !.titles = @ \o b[i].titles, !.info = @ \o b[i].info])

\* to_widgets, Data::SearchFor arm
search_to_widgets(s) ==
    LET i1 == users_block(items_to_add_init, s.channels, "Channels")
        i2 == users_block(i1, s.channelsWithTag, "Live channels with tag")
        i3 == games_block(i2, s.games)
        i4 == videos_block(i3, s.videos)
        i5 == related_block(i4, s.relatedLiveChannels)
    IN  IF ~i5.ok THEN [state |-> "panic", titles |-> <<>>, info |-> <<>>]
        ELSE extend_buckets(i5.b, 0, [state |-> "done", titles |-> <<>>, info |-> <<>>])


(***************************************************************************)
(* The other three arms of to_widgets push straight onto titles and info.  *)
(***************************************************************************)
EmptyWidgets == [state |-> "done", titles |-> <<>>, info |-> <<>>]
PanicWidgets == [state |-> "panic", titles |-> <<>>, info |-> <<>>]

\* titles.push(t)
titles_push(w, t) ==
    IF w.state = "panic" THEN w ELSE [w EXCEPT !.titles = Append(@, t)]

\* info.push((detail, node))
info_push(w, detail, node) ==
    IF w.state = "panic" THEN w
    ELSE [w EXCEPT !.info = Append(@, [detail |-> detail, node |-> node])]

\* personal_channel with the node keyed by the display name
personal_channel_by_name(w, channel) ==
    LET a == titles_push(w, plain(channel.displayName))
    IN  IF a.state = "panic" \/ ~channel.broadcastSettings THEN PanicWidgets
        ELSE info_push(a, "channel", NodeStream(channel.displayName))

\* one channel of a personal section; broadcastSettings.expect("Should be a
\* broadcast") panics on a channel without broadcast settings, after the title
\* was pushed
personal_channel(w, channel) ==
    LET a == titles_push(w, plain(channel.displayName))
    IN  IF a.state = "panic" \/ ~channel.broadcastSettings THEN PanicWidgets
        ELSE info_push(a, "channel", NodeStream(channel.login))

RECURSIVE personal_channels(_, _)
personal_channels(w, items) ==
    IF items = <<>> THEN w
    ELSE personal_channels(personal_channel(w, Head(items)), Tail(items))

RECURSIVE personal_to_widgets(_, _)
\* to_widgets, Data::PersonalSection arm
personal_to_widgets(w, personalSections) ==
    IF personalSections = <<>> THEN w
    ELSE LET section == Head(personalSections)
             a == titles_push(w, header(section.localizedFallback))
             b == info_push(a, "empty", NodeNone)
         IN  personal_to_widgets(personal_channels(b, section.items), Tail(personalSections))

\* the span of one title token
token_span(token) ==
    CASE token.kind = "BrowsableCollection" -> Span(token.text, TRUE, FALSE)
      [] token.kind = "Game" -> Span(token.text, TRUE, FALSE)
      [] token.kind = "TextToken" -> Span(token.text, TRUE, token.hasEmphasis)

\* shelf_title falling back only when every token is null
shelf_title_all_null(title) ==
    IF /\ title.localizedTitleTokens # <<>>
       /\ \A i \in 1..Len(title.localizedTitleTokens) :
             title.localizedTitleTokens[i].kind = "None"
    THEN header(title.fallbackLocalizedTitle)
    ELSE [i \in 1..Len(title.localizedTitleTokens) |->
            Span(title.localizedTitleTokens[i].text, TRUE,
                 title.localizedTitleTokens[i].hasEmphasis)]

\* the header label of a shelf: the fallback title if any token is null
shelf_title(title) ==
    IF \E i \in 1..Len(title.localizedTitleTokens) :
          title.localizedTitleTokens[i].kind = "None"
    THEN header(title.fallbackLocalizedTitle)
    ELSE [i \in 1..Len(title.localizedTitleTokens) |->
            token_span(title.localizedTitleTokens[i])]

\* shelf_entry_kept for every Stream, with broadcast settings or without
shelf_entry_kept_any_stream(entry) == entry.node.type \in {"Clip", "Game", "Stream"}

\* whether the match over &edge.node builds a row (else `_ => continue`)
shelf_entry_kept(entry) ==
    \/ entry.node.type = "Clip"
    \/ entry.node.type = "Game"
    \/ entry.node.type = "Stream" /\ entry.broadcastSettings

\* one entry of a shelf
shelf_entry(w, entry) ==
    IF shelf_entry_kept(entry)
    THEN info_push(titles_push(w, plain(entry.label)), entry.node.type, entry.node)
    ELSE w

RECURSIVE shelf_entries(_, _)
shelf_entries(w, edges) ==
    IF edges = <<>> THEN w
    ELSE shelf_entries(shelf_entry(w, Head(edges)), Tail(edges))

RECURSIVE shelves_to_widgets(_, _)
\* to_widgets, Data::Shelves arm
shelves_to_widgets(w, edges) ==
    IF edges = <<>> THEN w
    ELSE LET shelf == Head(edges)
             a == titles_push(w, shelf_title(shelf.title))
             b == info_push(a, "empty", NodeNone)
         IN  shelves_to_widgets(shelf_entries(b, shelf.content), Tail(edges))

RECURSIVE game_to_widgets(_, _)
\* to_widgets, Data::Game arm: one row per live stream, no header
game_to_widgets(w, edges) ==
    IF edges = <<>> THEN w
    ELSE LET stream == Head(edges)
             a == titles_push(w, plain(stream.displayName))
             b == info_push(a, "stream", NodeStream(stream.login))
         IN  game_to_widgets(b, Tail(edges))

\* TwitchResponse::to_widgets
to_widgets(r) ==
    CASE r.kind = "PersonalSection" -> personal_to_widgets(EmptyWidgets, r.personalSections)
      [] r.kind = "Shelves" -> shelves_to_widgets(EmptyWidgets, r.shelves)
      [] r.kind = "Game" -> game_to_widgets(EmptyWidgets, r.game)
      [] r.kind = "SearchFor" -> search_to_widgets(r.searchFor)

RECURSIVE Flatten(_)
\* the concatenation of a sequence of sequences
Flatten(ss) == IF ss = <<>> THEN <<>> ELSE Head(ss) \o Flatten(Tail(ss))

(***************************************************************************)
(* Node::select: the quality ladder against a clip's videoQualities and    *)
(* against the lines of a VOD's playlist.  Strings are sequences of        *)
(* characters, so that the last byte, the slice without it and `contains`  *)
(* are computed as the code computes them.                                 *)
(***************************************************************************)
audio_only == <<"a", "u", "d", "i", "o", "_", "o", "n", "l", "y">>
worst == <<"w", "o", "r", "s", "t">>
q160p == <<"1", "6", "0", "p">>
q360p == <<"3", "6", "0", "p">>
q480p == <<"4", "8", "0", "p">>
q720p == <<"7", "2", "0", "p">>
q720p60 == <<"7", "2", "0", "p", "6", "0">>
q1080p60 == <<"1", "0", "8", "0", "p", "6", "0">>
best == <<"b", "e", "s", "t">>

\* "Should be one of: audio_only, worst, 160p, 360p, 480p, 720p, 720p60, 1080p60, best"
QualityNames == {audio_only, worst, q160p, q360p, q480p, q720p, q720p60, q1080p60, best}

\* str::contains
contains(line, pattern) ==
    \E i \in 0..(Len(line) - Len(pattern)) : SubSeq(line, i + 1, i + Len(pattern)) = pattern

NotPlayed == [state |-> "not run", url |-> <<>>]

\* the Option<String> select returns, and the mark of a select that has not
\* returned
None == [some |-> FALSE, name |-> ""]
Some(name) == [some |-> TRUE, name |-> name]
NotReturned == [some |-> FALSE, name |-> "not returned"]
PlayerPanic == [state |-> "panic", url |-> <<>>]
Play(url) == [state |-> "played", url |-> url]

\* find_quality comparing the whole label, trailing p included
find_quality_unstripped(videoQualities, quality) ==
    LET hits == {i \in 1..Len(videoQualities) : videoQualities[i].quality = quality}
    IN  IF hits = {} THEN 0 ELSE CHOOSE i \in hits : \A j \in hits : i <= j

\* videoQualities.iter().find(|q| q.quality == quality[..quality.len() - 1]):
\* the index of the first such rendition, 0 when there is none
find_quality(videoQualities, quality) ==
    LET wanted == SubSeq(quality, 1, Len(quality) - 1)
        hits == {i \in 1..Len(videoQualities) : videoQualities[i].quality = wanted}
    IN  IF hits = {} THEN 0 ELSE CHOOSE i \in hits : \A j \in hits : i <= j

RECURSIVE clip_quality_loop(_, _, _)
\* the loop over qualities of the Clip arm, from ladder entry k on; source_url
\* starts as videoQualities[0].sourceURL
clip_quality_loop(ladder, videoQualities, k) ==
    IF k > Len(ladder) THEN videoQualities[1].sourceURL
    ELSE LET quality == ladder[k]
         IN  IF quality = audio_only \/ quality = worst
             THEN videoQualities[Len(videoQualities)].sourceURL
             ELSE IF quality = best THEN videoQualities[1].sourceURL
             ELSE IF /\ quality[Len(quality)] \in {"P", "p"}
                     /\ find_quality(videoQualities, quality) # 0
             THEN videoQualities[find_quality(videoQualities, quality)].sourceURL
             ELSE clip_quality_loop(ladder, videoQualities, k + 1)

\* Node::select, Clip arm: videoQualities[0] panics on an empty list
select_clip(ladder, videoQualities) ==
    IF videoQualities = <<>> THEN PlayerPanic
    ELSE Play(clip_quality_loop(ladder, videoQualities, 1))

\* An Option<&str>, and the Option<Option<&str>> that `url` is
NoLine == [some |-> FALSE, line |-> <<>>]
SomeLine(line) == [some |-> TRUE, line |-> line]
NoUrl == [set |-> FALSE, value |-> NoLine]
SomeUrl(value) == [set |-> TRUE, value |-> value]

\* Iterator::nth on the Split iterator that has yielded pos lines: the line n
\* places on, and the iterator after it
nth_line(lines, pos, n) ==
    IF pos + n < Len(lines) THEN SomeLine(lines[pos + n + 1]) ELSE NoLine
nth_pos(lines, pos, n) ==
    IF pos + n < Len(lines) THEN pos + n + 1 ELSE Len(lines)

\* split.clone().last()
last_line(lines, pos) ==
    IF pos < Len(lines) THEN SomeLine(lines[Len(lines)]) ELSE NoLine

RECURSIVE stream_inf_loop(_, _, _, _, _)
\* for (i, line) in split.clone().enumerate().skip(3).step_by(2): the clone
\* starts where split stood (start) when the loop began, split itself moves on
\* with every match.  st is (url, pos).
stream_inf_loop(lines, quality, start, i, st) ==
    IF start + i >= Len(lines) THEN st
    ELSE stream_inf_loop(lines, quality, start, i + 2,
            IF contains(lines[start + i + 1], quality)
            THEN [url |-> SomeUrl(nth_line(lines, st.pos, i + 1)),
                  pos |-> nth_pos(lines, st.pos, i + 1)]
            ELSE st)

RECURSIVE vod_quality_loop(_, _, _, _)
\* the loop over qualities of the Video arm, from ladder entry k on
vod_quality_loop(ladder, lines, k, st) ==
    IF k > Len(ladder) THEN st
    ELSE LET quality == ladder[k]
         IN  IF quality = audio_only \/ quality = worst
             THEN [url |-> SomeUrl(last_line(lines, st.pos)), pos |-> st.pos]
             ELSE IF quality = best
             THEN [url |-> SomeUrl(nth_line(lines, st.pos, 4)),
                   pos |-> nth_pos(lines, st.pos, 4)]
             ELSE vod_quality_loop(ladder, lines, k + 1,
                     stream_inf_loop(lines, quality, st.pos, 3, st))

\* Node::select, Video arm: url.unwrap_or(split.nth(4)).expect(..)
select_video(ladder, lines) ==
    LET st == vod_quality_loop(ladder, lines, 1, [url |-> NoUrl, pos |-> 0])
        chosen == IF st.url.set THEN st.url.value ELSE nth_line(lines, st.pos, 4)
    IN  IF chosen.some THEN Play(chosen.line) ELSE PlayerPanic

(***************************************************************************)
(* utils::format_seconds.  The text returned is the decimal rendering of   *)
(* `number` followed by `unit`.                                            *)
(***************************************************************************)
MINUTE == 60
HOUR == 60 * MINUTE
DAY == 24 * HOUR
\* 365 / 12 is a division of integers
MONTH == (365 \div 12) * DAY
YEAR == 365 * DAY

Text(number, unit) == [number |-> number, unit |-> unit]

\* format_seconds with every boundary value left in the smaller unit
format_seconds_boundary_below(s) ==
    IF s <= MINUTE THEN Text(s, " Seconds")
    ELSE IF s <= HOUR THEN Text(s \div MINUTE, " Minutes")
    ELSE IF s <= DAY THEN Text(s \div HOUR, " Hours")
    ELSE IF s <= MONTH THEN Text(s \div DAY, " Days")
    ELSE IF s <= YEAR THEN Text(s \div MONTH, " Months")
    ELSE Text(s \div YEAR, " Years")

format_seconds(s) ==
    IF s < MINUTE THEN Text(s, " Seconds")
    ELSE IF s < HOUR THEN Text(s \div MINUTE, " Minutes")
    ELSE IF s < DAY THEN Text(s \div HOUR, " Hours")
    ELSE IF s < MONTH THEN Text(s \div DAY, " Days")
    ELSE IF s < YEAR THEN Text(s \div MONTH, " Months")
    ELSE Text(s \div YEAR, " Years")

NotFormatted == [number |-> 0, unit |-> "not run"]

(***************************************************************************)
(* Search payloads.                                                        *)
(***************************************************************************)
Users ==
    { [login |-> "ann", displayName |-> "Ann", startedAt |-> TRUE, stream |-> TRUE,
       latestVideo |-> <<"v1">>, topClip |-> <<"c1">>],
      [login |-> "bob", displayName |-> "Bob", startedAt |-> TRUE, stream |-> FALSE,
       latestVideo |-> <<"v2", "v3">>, topClip |-> <<>>],
      [login |-> "cat", displayName |-> "Cat", startedAt |-> FALSE, stream |-> FALSE,
       latestVideo |-> <<>>, topClip |-> <<"c3", "c4">>],
      [login |-> "dan", displayName |-> "Dan", startedAt |-> TRUE, stream |-> FALSE,
       latestVideo |-> <<>>, topClip |-> <<"c5">>] }
GameItems == { [name |-> "chess", displayName |-> "Chess"] }
VideoItems == { [id |-> "v9", title |-> "Final"] }
RelatedItems == { [login |-> "eve", displayName |-> "Eve"] }

\* the five groups of a SearchFor payload, in the order to_widgets handles them
Groups == <<"channels", "channelsWithTag", "games", "videos", "relatedLiveChannels">>
GroupNames == {Groups[i] : i \in 1..Len(Groups)}

\* "It's from 1 to 5": the scores the server is documented to send, and one
\* value on either side of that range
Scores == 1..NumBuckets
ScoreValues == 0..(NumBuckets + 1)

\* the edge lists of a payload: at most MaxSearchEdges edges in all
EdgeVectors ==
    { [channels |-> t[1], channelsWithTag |-> t[2], games |-> t[3], videos |-> t[4],
       relatedLiveChannels |-> t[5]] :
      t \in { u \in SeqsUpTo(Users, MaxSearchEdges) \X SeqsUpTo(Users, MaxSearchEdges)
                  \X SeqsUpTo(GameItems, MaxSearchEdges) \X SeqsUpTo(VideoItems, MaxSearchEdges)
                  \X SeqsUpTo(RelatedItems, MaxSearchEdges) :
                Len(u[1]) + Len(u[2]) + Len(u[3]) + Len(u[4]) + Len(u[5]) <= MaxSearchEdges } }

\* a payload: every group with edges has a score of its own; the groups without
\* edges (whose score to_widgets never reads) share one
SearchFor(ev, sc, es) ==
    [g \in GroupNames |->
        [edges |-> ev[g], score |-> IF ev[g] = <<>> THEN es ELSE sc[g]]]

(***************************************************************************)
(* PersonalSection, Shelves and Game (category) payloads.                  *)
(***************************************************************************)
Channels ==
    { [login |-> "ann", displayName |-> "Ann", broadcastSettings |-> TRUE],
      [login |-> "bob", displayName |-> "Bob", broadcastSettings |-> TRUE],
      [login |-> "cat", displayName |-> "Cat", broadcastSettings |-> FALSE] }
SectionTitles == {"Followed", "Recommended"}

\* the shapes of a payload: per section the number of its channels, at most
\* MaxSections sections and MaxSectionItems channels in all
SectionShapes ==
    { c \in SeqsUpTo(0..MaxSectionItems, MaxSections) : SumTo(c, Len(c)) <= MaxSectionItems }

PersonalSections(counts, titles, flat) ==
    [i \in 1..Len(counts) |->
        [localizedFallback |-> titles[i], items |-> Piece(flat, counts, i)]]

Tokens ==
    { [kind |-> "BrowsableCollection", text |-> "Esports", hasEmphasis |-> FALSE],
      [kind |-> "Game", text |-> "Chess", hasEmphasis |-> FALSE],
      [kind |-> "TextToken", text |-> "Live now", hasEmphasis |-> TRUE],
      [kind |-> "None", text |-> "", hasEmphasis |-> FALSE] }
ShelfEntries ==
    { [node |-> NodeClip("c7"), label |-> "Clutch", broadcastSettings |-> FALSE],
      [node |-> NodeGame("chess"), label |-> "Chess", broadcastSettings |-> FALSE],
      [node |-> NodeStream("ann"), label |-> "Ann", broadcastSettings |-> TRUE],
      [node |-> NodeStream("bob"), label |-> "Bob", broadcastSettings |-> FALSE],
      [node |-> NodeVideo("v1"), label |-> "", broadcastSettings |-> FALSE],
      [node |-> NodeNone, label |-> "", broadcastSettings |-> FALSE] }
FallbackTitle == "Popular"

\* the shapes of a payload: per shelf the number of its title tokens and of its
\* entries, at most MaxShelves shelves and MaxShelfParts tokens and entries in all
ShelfShapes ==
    { c \in SeqsUpTo((0..MaxShelfParts) \X (0..MaxShelfParts), MaxShelves) :
        SumTo([i \in 1..Len(c) |-> c[i][1] + c[i][2]], Len(c)) <= MaxShelfParts }

Shelves(shape, tokens, entries) ==
    [i \in 1..Len(shape) |->
        [title |-> [fallbackLocalizedTitle |-> FallbackTitle,
                    localizedTitleTokens |->
                        Piece(tokens, [j \in 1..Len(shape) |-> shape[j][1]], i)],
         content |-> Piece(entries, [j \in 1..Len(shape) |-> shape[j][2]], i)]]

LiveStreams ==
    { [login |-> "ann", displayName |-> "Ann"],
      [login |-> "bob", displayName |-> "Bob"] }

NotRun == [state |-> "not run", titles |-> <<>>, info |-> <<>>]

(***************************************************************************)
(* SpecProject: to_widgets applied to one decoded response of any shape.   *)
(***************************************************************************)
InitSearchFor ==
    \E ev \in EdgeVectors :
       \E sc \in [{g \in GroupNames : ev[g] # <<>>} -> ScoreValues], es \in ScoreValues :
          response = [kind |-> "SearchFor", searchFor |-> SearchFor(ev, sc, es)]

InitPersonalSection ==
    \E counts \in SectionShapes :
       \E titles \in SeqsOfLen(SectionTitles, Len(counts)),
          flat \in SeqsOfLen(Channels, SumTo(counts, Len(counts))) :
          response = [kind |-> "PersonalSection",
                      personalSections |-> PersonalSections(counts, titles, flat)]

InitShelves ==
    \E shape \in ShelfShapes :
       \E tokens \in SeqsOfLen(Tokens, SumTo([j \in 1..Len(shape) |-> shape[j][1]], Len(shape))),
          entries \in SeqsOfLen(ShelfEntries,
                                SumTo([j \in 1..Len(shape) |-> shape[j][2]], Len(shape))) :
          response = [kind |-> "Shelves", shelves |-> Shelves(shape, tokens, entries)]

InitGame ==
    \E streams \in SeqsUpTo(LiveStreams, MaxStreams) :
       response = [kind |-> "Game", game |-> streams]

\* the part of the state that to_widgets does not touch
SelIdle ==
    /\ qualities = <<best>>
    /\ selected = NodeNone
    /\ renditions = <<>>
    /\ played = NotPlayed
    /\ returned = NotReturned

FmtIdle ==
    /\ seconds = 0
    /\ formatted = NotFormatted

ProjIdle ==
    /\ response = [kind |-> "Game", game |-> <<>>]
    /\ widgets = NotRun

NoRequest == [operation |-> "none", arg |-> ""]

\* the terminal as the program finds it and has to leave it
Cooked == [raw |-> FALSE, alternate |-> FALSE]

NavIdle ==
    /\ page = <<>>
    /\ list_state = 0
    /\ status = "idle"
    /\ key = "none"
    /\ requested = NoRequest
    /\ query = ""
    /\ terminal = Cooked

ChatIdle ==
    /\ overlay = "idle"
    /\ tab = 0
    /\ chat = <<>>
    /\ log = <<>>
    /\ info = <<>>
    /\ height = 0
    /\ event = "none"

InitProject ==
    /\ InitSearchFor \/ InitPersonalSection \/ InitShelves \/ InitGame
    /\ widgets = NotRun
    /\ SelIdle
    /\ FmtIdle
    /\ NavIdle
    /\ ChatIdle

ToWidgets ==
    /\ widgets.state = "not run"
    /\ widgets' = to_widgets(response)
    /\ UNCHANGED <<response, selVars, fmtVars, chatVars, navVars>>

NextProject == ToWidgets

SpecProject == InitProject /\ [][NextProject]_vars

(***************************************************************************)
(* SpecSelect: the + and - keys on the ladder, then select on one node.    *)
(***************************************************************************)
Digits == <<"1", "2", "3", "4", "5", "6", "7", "8", "9">>

\* the URL of the i-th rendition the server lists
RenditionUrl(i) == <<"u", Digits[i]>>

\* quality names of a clip's videoQualities
ClipQualityNames == {<<"1", "0", "8", "0">>, <<"7", "2", "0">>, <<"4", "8", "0">>}

\* videoQualities: each rendition with its own sourceURL
ClipQualities(names) ==
    [i \in 1..Len(names) |-> [quality |-> names[i], sourceURL |-> RenditionUrl(i)]]

\* quality labels a VOD playlist declares
VodLabels ==
    { <<"c", "h", "u", "n", "k", "e", "d">>, <<"7", "2", "0", "p", "6", "0">>,
      <<"7", "2", "0", "p", "3", "0">>, <<"4", "8", "0", "p", "3", "0">> }

\* the playlist text split at '\n': three leading lines, then for every
\* rendition its quality line and its URL line; text that ends in '\n' splits
\* into one more, empty, line
Playlist(labels, trailing) ==
    <<<<"#">>, <<"#">>, <<"#">>>>
        \o Flatten([i \in 1..Len(labels) |-> <<labels[i], RenditionUrl(i)>>])
        \o (IF trailing THEN << <<>> >> ELSE <<>>)

\* let mut qualities = if QUALITY.len() == 0 { vec!["best"] } else { QUALITY }
initial_qualities(configured) == IF Len(configured) = 0 THEN <<best>> ELSE configured

Ladders == SeqsUpTo(QualityNames, MaxLadder) \ {<<>>}

InitSelect ==
    /\ \E configured \in SeqsUpTo(QualityNames, MaxLadder) :
          qualities = initial_qualities(configured)
    /\ \/ \E names \in SeqsUpTo(ClipQualityNames, MaxRenditions) :
             /\ selected = NodeClip("c1")
             /\ renditions = ClipQualities(names)
       \/ \E labels \in SeqsUpTo(VodLabels, MaxRenditions), trailing \in BOOLEAN :
             /\ selected = NodeVideo("v1")
             /\ renditions = Playlist(labels, trailing)
       \/ /\ selected \in {NodeStream("ann"), NodeGame("Chess"), NodeNone}
          /\ renditions = <<>>
    /\ played = NotPlayed
    /\ returned = NotReturned
    /\ ProjIdle
    /\ FmtIdle
    /\ NavIdle
    /\ ChatIdle

\* the + key wrapping around from best to audio_only
increase_quality_wrapping(quality) ==
    CASE quality = audio_only -> worst
      [] quality = worst -> q160p
      [] quality = q160p -> q360p
      [] quality = q360p -> q480p
      [] quality = q480p -> q720p
      [] quality = q720p -> q720p60
      [] quality = q720p60 -> q1080p60
      [] quality = q1080p60 -> best
      [] quality = best -> audio_only
      [] OTHER -> quality

\* KeyCode::Char('+')
increase_quality(quality) ==
    CASE quality = audio_only -> worst
      [] quality = worst -> q160p
      [] quality = q160p -> q360p
      [] quality = q360p -> q480p
      [] quality = q480p -> q720p
      [] quality = q720p -> q720p60
      [] quality = q720p60 -> q1080p60
      [] quality = q1080p60 -> best
      [] OTHER -> quality

\* KeyCode::Char('-')
decrease_quality(quality) ==
    CASE quality = worst -> audio_only
      [] quality = q160p -> worst
      [] quality = q360p -> q160p
      [] quality = q480p -> q360p
      [] quality = q720p -> q480p
      [] quality = q720p60 -> q720p
      [] quality = q1080p60 -> q720p60
      [] quality = best -> q1080p60
      [] OTHER -> quality

IncreaseQuality ==
    /\ played = NotPlayed
    /\ key' = "+"
    /\ qualities' = [qualities EXCEPT ![1] = increase_quality(qualities[1])]
    /\ UNCHANGED <<projVars, fmtVars, chatVars, query, page, list_state, status, requested, terminal,
                   selected, renditions, played, returned>>

DecreaseQuality ==
    /\ played = NotPlayed
    /\ key' = "-"
    /\ qualities' = [qualities EXCEPT ![1] = decrease_quality(qualities[1])]
    /\ UNCHANGED <<projVars, fmtVars, chatVars, query, page, list_state, status, requested, terminal,
                   selected, renditions, played, returned>>

\* Node::select on the selected node
select(n, ladder, served) ==
    CASE n.type = "Clip" -> select_clip(ladder, served)
      [] n.type = "Video" -> select_video(ladder, served)
      [] n.type = "Stream" -> [state |-> "streamlink", url |-> <<n.key>>]
      [] n.type = "Game" -> [state |-> "category", url |-> <<n.key>>]
      [] OTHER -> [state |-> "nothing", url |-> <<>>]

\* the secondary request Node::select sends
select_request(n) ==
    CASE n.type = "Clip" -> [operation |-> "VideoAccessToken_Clip", arg |-> n.key]
      [] n.type = "Video" -> [operation |-> "PlaybackAccessToken", arg |-> n.key]
      [] OTHER -> NoRequest

\* select returning the login of a Stream as well
select_returned_for_streams(n, outcome) ==
    IF outcome.state \in {"panic", "malformed", "spawn failed"} THEN NotReturned
    ELSE IF n.type \in {"Game", "Stream"} THEN Some(n.key)
    ELSE None

\* select returning the slug of a Clip as if it were a category
select_returned_for_clips(n, outcome) ==
    IF outcome.state \in {"panic", "malformed", "spawn failed"} THEN NotReturned
    ELSE IF n.type \in {"Game", "Clip"} THEN Some(n.key)
    ELSE None

\* the value Node::select returns once its effect is `outcome`; a panic
\* returns nothing
select_returned(n, outcome) ==
    IF outcome.state \in {"panic", "malformed", "spawn failed"} THEN NotReturned
    ELSE IF n.type = "Game" THEN Some(n.key)
    ELSE None

Select ==
    /\ played = NotPlayed
    /\ key' = "Enter"
    /\ requested' = select_request(selected)
    /\ played' = select(selected, qualities, renditions)
    /\ returned' = select_returned(selected, played')
    /\ UNCHANGED <<projVars, fmtVars, chatVars, query, page, list_state, status, terminal,
                   qualities, selected, renditions>>

NextSelect == IncreaseQuality \/ DecreaseQuality \/ Select

SpecSelect == InitSelect /\ [][NextSelect]_vars

(***************************************************************************)
(* SpecFormat: format_seconds applied to one argument.                     *)
(***************************************************************************)
\* arguments around which the unit or the number shown changes
FormatMarks ==
    {0, 30, 90, MINUTE, 2 * MINUTE, HOUR, 2 * HOUR, DAY, 2 * DAY, MONTH, 2 * MONTH,
     (365 * DAY) \div 12, 263 * 10000, YEAR, 2 * YEAR}

FormatArguments == UNION {(m - FormatWindow)..(m + FormatWindow) : m \in FormatMarks}

InitFormat ==
    /\ seconds \in FormatArguments
    /\ formatted = NotFormatted
    /\ ProjIdle
    /\ SelIdle
    /\ NavIdle
    /\ ChatIdle

FormatSeconds ==
    /\ formatted = NotFormatted
    /\ formatted' = format_seconds(seconds)
    /\ UNCHANGED <<projVars, selVars, navVars, chatVars, seconds>>

NextFormat == FormatSeconds

SpecFormat == InitFormat /\ [][NextFormat]_vars

(***************************************************************************)
(* SpecNav: the event loop of main.  Every action is one key: its handler  *)
(* and the draw at the top of the next iteration, which indexes info_vec   *)
(* with the selected row.                                                  *)
(***************************************************************************)
HomePage(selection) == [kind |-> "Home", name |-> "", selection |-> selection]
\* a category entered as a search for its name
GamePage_as_search(name, selection) ==
    [kind |-> "Search", name |-> name, selection |-> selection]
GamePage(name, selection) == [kind |-> "Game", name |-> name, selection |-> selection]
\* a search page that forgets what was typed
SearchPage_blank(text, selection) == [kind |-> "Search", name |-> "", selection |-> selection]
SearchPage(text, selection) == [kind |-> "Search", name |-> text, selection |-> selection]

\* config::HOME_PAGE
HOME_PAGE == [kind |-> "PersonalSection", arg |-> ""]

\* config::QUALITY
QUALITY == <<best>>

\* Page::set_selection, Page::get_selection
set_selection(p, s) == [p EXCEPT !.selection = s]
get_selection(p) == p.selection

\* the request Page::request sends for a page
Page_request(p) ==
    CASE p.kind = "Game" -> [operation |-> "DirectoryPage_Game", arg |-> p.name]
      [] p.kind = "Search" -> [operation |-> "SearchResults", arg |-> p.name]
      [] OTHER ->
            CASE HOME_PAGE.kind = "PersonalSection" ->
                    [operation |-> "PersonalSections", arg |-> ""]
              [] HOME_PAGE.kind = "Shelves" -> [operation |-> "Shelves", arg |-> ""]
              [] HOME_PAGE.kind = "Game" ->
                    [operation |-> "DirectoryPage_Game", arg |-> HOME_PAGE.arg]
              [] OTHER -> [operation |-> "SearchResults", arg |-> HOME_PAGE.arg]

\* What the server may answer.  Listings change between two requests, so
\* every request draws its answer anew.
SomeChannels == << [login |-> "ann", displayName |-> "Ann", broadcastSettings |-> TRUE],
                   [login |-> "bob", displayName |-> "Bob", broadcastSettings |-> TRUE] >>
SomeStreams == << [login |-> "ann", displayName |-> "Ann"],
                  [login |-> "bob", displayName |-> "Bob"] >>
SomeUsers ==
    << [login |-> "ann", displayName |-> "Ann", startedAt |-> TRUE, stream |-> TRUE,
        latestVideo |-> <<"v1">>, topClip |-> <<"c1">>],
       [login |-> "bob", displayName |-> "Bob", startedAt |-> TRUE, stream |-> FALSE,
        latestVideo |-> <<"v2", "v3">>, topClip |-> <<>>] >>

\* the first n entries of a listing that repeats `some`
Listing(some, n) == [i \in 1..n |-> some[((i - 1) % Len(some)) + 1]]

ServedSections ==
    {<<>>} \cup { <<[localizedFallback |-> "Followed", items |-> Listing(SomeChannels, n)]>> :
                    n \in 0..MaxListing }

ServedSearches ==
    { SearchFor([channels |-> Listing(SomeUsers, n), channelsWithTag |-> <<>>,
                 games |-> g, videos |-> <<>>, relatedLiveChannels |-> <<>>],
                [x \in GroupNames |-> 1], 1) :
        n \in 0..(MaxListing - 1), g \in {<<>>, <<[name |-> "chess", displayName |-> "Chess"]>>} }

\* a body that from_slice cannot decode
Malformed == [kind |-> "Malformed"]

Served(req) ==
    {Malformed} \cup
    CASE req.operation = "PersonalSections" ->
            { [kind |-> "PersonalSection", personalSections |-> ps] : ps \in ServedSections }
      [] req.operation = "DirectoryPage_Game" ->
            { [kind |-> "Game", game |-> Listing(SomeStreams, n)] : n \in 0..MaxListing }
      [] req.operation = "SearchResults" ->
            { [kind |-> "SearchFor", searchFor |-> sf] : sf \in ServedSearches }
      [] OTHER -> {}

\* what the secondary request of select is answered with
ServedRenditions(n) ==
    CASE n.type = "Clip" ->
            { ClipQualities(<< <<"1", "0", "8", "0">>, <<"4", "8", "0">> >>) }
      [] n.type = "Video" ->
            { Playlist(<< <<"c", "h", "u", "n", "k", "e", "d">>,
                          <<"7", "2", "0", "p", "3", "0">> >>, trailing) :
                trailing \in BOOLEAN }
      [] OTHER -> {<<>>}

Queries == {"chess", "go"}

Min(a, b) == IF a <= b THEN a ELSE b

\* from_slice(..).expect("Response should be valid JSON").to_widgets(): whether
\* it panics, and (list, info_vec) after the assignment it feeds
request_panics(resp) == resp.kind = "Malformed" \/ to_widgets(resp).state = "panic"
requested_widgets(resp, old) == IF request_panics(resp) THEN old ELSE to_widgets(resp)

\* the draw of the next frame: info_vec[list_state.selected()] panics past the end
Drawn(cursor, w) ==
    IF w.state = "panic" \/ cursor >= Len(w.info) THEN "panicked" ELSE "running"

\* enable_raw_mode and EnterAlternateScreen
Entered == [raw |-> TRUE, alternate |-> TRUE]

\* a panic hook that hands over to the default hook at once
panic_hook_default_only(t) == t

\* the panic hook: disable_raw_mode, LeaveAlternateScreen, then the default hook
panic_hook(t) == [raw |-> FALSE, alternate |-> FALSE]

\* the two statements after the event loop
exit_cleanup(t) == [raw |-> FALSE, alternate |-> FALSE]

\* the terminal once the key is handled: the hook has run if it panicked
settled(st, t) == IF st = "panicked" THEN panic_hook(t) ELSE t

\* the Back handler leaving the cursor at the top
back_selection_top(saved, rows) == 0

\* page.get_selection().min(info_vec.len() - 1)
back_selection(saved, rows) == Min(saved, rows - 1)

\* Back on Home leaving the cursor where it is
home_back_selection_kept(s) == s

\* Page::Home { .. } => list_state.select(Some(0))
home_back_selection(s) == 0

\* Refresh moving the cursor to the top
refresh_selection_top(s, rows) == 0

\* s.min(info_vec.len() - 1)
refresh_selection(s, rows) == Min(s, rows - 1)

\* select as the world lets it go: the answer to the token request of a Clip
\* or a Video may be no valid JSON, and the player may fail to start
SelectFates == {"ok", "malformed", "spawn failed"}
attempted(n, outcome, fate) ==
    IF fate = "malformed" /\ n.type \in {"Clip", "Video"}
    THEN [state |-> "malformed", url |-> <<>>]
    ELSE IF fate = "spawn failed" /\ outcome.state \in {"played", "streamlink"}
    THEN [state |-> "spawn failed", url |-> outcome.url]
    ELSE outcome

\* Back jumping to the bottom of the stack
previous_bottom(p) == <<p[Len(p)]>>

\* page = *previous
previous(p) == Tail(p)

InitNav ==
    /\ page = <<HomePage(0)>>
    /\ response \in Served(Page_request(HomePage(0)))
    /\ widgets = requested_widgets(response, NotRun)
    /\ list_state = 0
    /\ status = IF request_panics(response) THEN "panicked" ELSE Drawn(0, widgets)
    /\ terminal = settled(status, IF request_panics(response) THEN Cooked ELSE Entered)
    /\ key = "start"
    /\ requested = Page_request(HomePage(0))
    /\ query = ""
    /\ qualities = initial_qualities(QUALITY)
    /\ selected = NodeNone
    /\ renditions = <<>>
    /\ played = NotPlayed
    /\ returned = NotReturned
    /\ FmtIdle
    /\ ChatIdle

\* Down moving on without looking at the number of rows
DownUnclamped ==
    /\ status = "running"
    /\ key' = "Down"
    /\ list_state' = list_state + 1
    /\ requested' = NoRequest
    /\ played' = NotPlayed
    /\ returned' = NotReturned
    /\ status' = Drawn(list_state', widgets)
    /\ terminal' = settled(status', terminal)
    /\ UNCHANGED <<projVars, fmtVars, chatVars, query, page, qualities, selected, renditions>>

\* KeyCode::Down
Down ==
    /\ status = "running"
    /\ key' = "Down"
    /\ list_state' = Min(Len(widgets.info), list_state + 2) - 1
    /\ requested' = NoRequest
    /\ played' = NotPlayed
    /\ returned' = NotReturned
    /\ status' = Drawn(list_state', widgets)
    /\ terminal' = settled(status', terminal)
    /\ UNCHANGED <<projVars, fmtVars, chatVars, query, page, qualities, selected, renditions>>

\* KeyCode::Up
Up ==
    /\ status = "running"
    /\ key' = "Up"
    /\ list_state' = IF list_state = 0 THEN 0 ELSE list_state - 1
    /\ requested' = NoRequest
    /\ played' = NotPlayed
    /\ returned' = NotReturned
    /\ status' = Drawn(list_state', widgets)
    /\ terminal' = settled(status', terminal)
    /\ UNCHANGED <<projVars, fmtVars, chatVars, query, page, qualities, selected, renditions>>

\* the heights terminal.size() reports: the draw places its key help at
\* height - 9
TerminalHeights == 9..MaxTerminalHeight

\* KeyCode::PageDown
PageDown ==
    /\ status = "running"
    /\ key' = "PageDown"
    /\ \E h \in TerminalHeights :
          list_state' = Min(Len(widgets.info), list_state + (h \div 2)) - 1
    /\ requested' = NoRequest
    /\ played' = NotPlayed
    /\ returned' = NotReturned
    /\ status' = Drawn(list_state', widgets)
    /\ terminal' = settled(status', terminal)
    /\ UNCHANGED <<projVars, fmtVars, chatVars, query, page, qualities, selected, renditions>>

\* KeyCode::PageUp
PageUp ==
    /\ status = "running"
    /\ key' = "PageUp"
    /\ \E h \in TerminalHeights :
          list_state' = IF list_state <= (h \div 2) - 1 THEN 0
                        ELSE list_state - ((h \div 2) - 1)
    /\ requested' = NoRequest
    /\ played' = NotPlayed
    /\ returned' = NotReturned
    /\ status' = Drawn(list_state', widgets)
    /\ terminal' = settled(status', terminal)
    /\ UNCHANGED <<projVars, fmtVars, chatVars, query, page, qualities, selected, renditions>>

\* KeyCode::Right: select on the node of the selected row, and the move into
\* the category it returns
Enter ==
    /\ status = "running"
    /\ key' = "Enter"
    /\ selected' = widgets.info[list_state + 1].node
    /\ renditions' \in ServedRenditions(selected')
    /\ \E fate \in SelectFates :
          played' = attempted(selected', select(selected', qualities, renditions'), fate)
    /\ returned' = select_returned(selected', played')
    /\ IF returned'.some
       THEN /\ Len(page) < MaxDepth
            /\ page' = <<GamePage(returned'.name, 0), set_selection(page[1], list_state)>>
                           \o Tail(page)
            /\ list_state' = 0
            /\ requested' = Page_request(page'[1])
            /\ response' \in Served(requested')
            /\ widgets' = requested_widgets(response', widgets)
            /\ status' = IF request_panics(response') THEN "panicked"
                         ELSE Drawn(list_state', widgets')
       ELSE /\ requested' = select_request(selected')
            /\ status' = IF returned' = NotReturned THEN "panicked"
                         ELSE Drawn(list_state, widgets)
            /\ UNCHANGED <<projVars, page, list_state>>
    /\ terminal' = settled(status', terminal)
    /\ UNCHANGED <<fmtVars, chatVars, query, qualities>>

\* KeyCode::Left.  With no row to return to, info_vec.len() - 1 overflows:
\* that panics before the cursor is set, or wraps and leaves the saved index
\* for the draw to panic on.
Back ==
    /\ status = "running"
    /\ key' = "Back"
    /\ played' = NotPlayed
    /\ returned' = NotReturned
    /\ IF page[1].kind = "Home"
       THEN /\ list_state' = home_back_selection(list_state)
            /\ requested' = NoRequest
            /\ status' = Drawn(list_state', widgets)
            /\ UNCHANGED <<projVars, page>>
       ELSE /\ page' = previous(page)
            /\ requested' = Page_request(page'[1])
            /\ response' \in Served(requested')
            /\ widgets' = requested_widgets(response', widgets)
            /\ IF request_panics(response')
               THEN /\ list_state' = list_state
                    /\ status' = "panicked"
               ELSE IF Len(widgets'.info) = 0
               THEN /\ list_state' \in {list_state, get_selection(page'[1])}
                    /\ status' = "panicked"
               ELSE /\ list_state' = back_selection(get_selection(page'[1]),
                                                    Len(widgets'.info))
                    /\ status' = Drawn(list_state', widgets')
    /\ terminal' = settled(status', terminal)
    /\ UNCHANGED <<fmtVars, chatVars, query, qualities, selected, renditions>>

\* Home with the new page pushed onto the stack
HomeKeepingStack ==
    /\ status = "running"
    /\ key' = "Home"
    /\ played' = NotPlayed
    /\ returned' = NotReturned
    /\ list_state' = 0
    /\ page' = <<HomePage(0)>> \o page
    /\ requested' = Page_request(page'[1])
    /\ response' \in Served(requested')
    /\ widgets' = requested_widgets(response', widgets)
    /\ status' = IF request_panics(response') THEN "panicked"
                 ELSE Drawn(list_state', widgets')
    /\ terminal' = settled(status', terminal)
    /\ UNCHANGED <<fmtVars, chatVars, query, qualities, selected, renditions>>

\* KeyCode::Char('h')
Home ==
    /\ status = "running"
    /\ key' = "Home"
    /\ played' = NotPlayed
    /\ returned' = NotReturned
    /\ list_state' = 0
    /\ page' = <<HomePage(0)>>
    /\ requested' = Page_request(page'[1])
    /\ response' \in Served(requested')
    /\ widgets' = requested_widgets(response', widgets)
    /\ status' = IF request_panics(response') THEN "panicked"
                 ELSE Drawn(list_state', widgets')
    /\ terminal' = settled(status', terminal)
    /\ UNCHANGED <<fmtVars, chatVars, query, qualities, selected, renditions>>

\* Search pushing its page and showing the rows it already had
SearchWithoutRequest ==
    /\ status = "running"
    /\ Len(page) < MaxDepth
    /\ key' = "Search"
    /\ played' = NotPlayed
    /\ returned' = NotReturned
    /\ list_state' = 0
    /\ query' \in Queries
    /\ page' = <<SearchPage(query', 0), set_selection(page[1], list_state')>> \o Tail(page)
    /\ requested' = NoRequest
    /\ status' = Drawn(list_state', widgets)
    /\ terminal' = settled(status', terminal)
    /\ UNCHANGED <<projVars, fmtVars, chatVars, qualities, selected, renditions>>

\* KeyCode::Char('s'), with the query typed up to its Enter: the cursor is
\* moved to the top before the page left behind records it
Search ==
    /\ status = "running"
    /\ Len(page) < MaxDepth
    /\ key' = "Search"
    /\ played' = NotPlayed
    /\ returned' = NotReturned
    /\ list_state' = 0
    /\ query' \in Queries
    /\ page' = <<SearchPage(query', 0), set_selection(page[1], list_state')>> \o Tail(page)
    /\ requested' = Page_request(page'[1])
    /\ response' \in Served(requested')
    /\ widgets' = requested_widgets(response', widgets)
    /\ status' = IF request_panics(response') THEN "panicked"
                 ELSE Drawn(list_state', widgets')
    /\ terminal' = settled(status', terminal)
    /\ UNCHANGED <<fmtVars, chatVars, qualities, selected, renditions>>

\* KeyCode::Char('r'); info_vec.len() - 1 as in Back
Refresh ==
    /\ status = "running"
    /\ key' = "Refresh"
    /\ played' = NotPlayed
    /\ returned' = NotReturned
    /\ requested' = Page_request(page[1])
    /\ response' \in Served(requested')
    /\ widgets' = requested_widgets(response', widgets)
    /\ IF request_panics(response') \/ Len(widgets'.info) = 0
       THEN /\ list_state' = list_state
            /\ status' = "panicked"
       ELSE /\ list_state' = refresh_selection(list_state, Len(widgets'.info))
            /\ status' = Drawn(list_state', widgets')
    /\ terminal' = settled(status', terminal)
    /\ UNCHANGED <<fmtVars, chatVars, query, page, qualities, selected, renditions>>

\* KeyCode::Char('q'): leave the loop
Quit ==
    /\ status = "running"
    /\ key' = "Quit"
    /\ status' = "quit"
    /\ terminal' = exit_cleanup(terminal)
    /\ requested' = NoRequest
    /\ played' = NotPlayed
    /\ returned' = NotReturned
    /\ UNCHANGED <<projVars, fmtVars, chatVars, query, page, list_state, qualities, selected, renditions>>

NextNav ==
    \/ Down
    \/ Up
    \/ PageDown
    \/ PageUp
    \/ Enter
    \/ Back
    \/ Home
    \/ Search
    \/ Refresh
    \/ Quit

SpecNav == InitNav /\ [][NextNav]_vars

(***************************************************************************)
(* Properties of the projection.                                           *)
(***************************************************************************)
\* the rows to_widgets returned: label i with pair i
Rows(w) ==
    [i \in 1..Len(w.info) |->
        [title |-> w.titles[i], detail |-> w.info[i].detail, node |-> w.info[i].node]]

Row(title, detail, node) == [title |-> title, detail |-> detail, node |-> node]

HeaderText(g) ==
    CASE g = "channels" -> "Channels"
      [] g = "channelsWithTag" -> "Live channels with tag"
      [] g = "games" -> "Categories"
      [] g = "videos" -> "Past videos"
      [] g = "relatedLiveChannels" -> "People searching also watch:"

\* the rows of one entry of group g
EntryRows(g, e) ==
    CASE g \in {"channels", "channelsWithTag"} ->
            <<Row(plain(e.displayName), user_detail(e), user_node(e))>>
            \o (IF Len(e.topClip) = 1
                THEN <<Row(plain("| Top clip"), "clip", NodeClip(e.topClip[1]))>>
                ELSE <<>>)
      [] g = "games" -> <<Row(plain(e.displayName), "game", NodeGame(e.name))>>
      [] g = "videos" -> <<Row(plain(e.title), "video", NodeVideo(e.id))>>
      [] g = "relatedLiveChannels" -> <<Row(plain(e.displayName), "related", NodeStream(e.login))>>

\* the rows of group g: nothing for an empty group, else its header and its entries
GroupRows(s, g) ==
    IF s[g].edges = <<>> THEN <<>>
    ELSE <<Row(header(HeaderText(g)),
               IF g = "relatedLiveChannels" THEN "empty" ELSE "total", NodeNone)>>
         \o Flatten([i \in 1..Len(s[g].edges) |-> EntryRows(g, s[g].edges[i])])

\* the rows of the groups scored k, in the fixed order of Groups
BucketRows(s, k) ==
    Flatten([i \in 1..Len(Groups) |->
                IF s[Groups[i]].score = k THEN GroupRows(s, Groups[i]) ELSE <<>>])

SearchRan == response.kind = "SearchFor" /\ widgets.state # "not run"

\* C1: for a search payload whose five scores are in 1..5, the rows are the
\* buckets 1, 2, 3, 4, 5 one after the other; inside a bucket the groups keep the
\* order Channels, ChannelsWithTag, Categories, Videos, RelatedLiveChannels, and
\* inside a group the header comes first and the entries follow in payload order.
C1_SearchRowsByAscendingScore ==
    (SearchRan /\ \A g \in GroupNames : response.searchFor[g].score \in Scores)
    => /\ widgets.state = "done"
       /\ Len(widgets.titles) = Len(widgets.info)
       /\ Rows(widgets) = Flatten([k \in 1..NumBuckets |-> BucketRows(response.searchFor, k)])

\* two groups with edges, the one handled first scored higher: its rows come last
C1_Witness ==
    /\ SearchRan /\ widgets.state = "done"
    /\ \A g \in GroupNames : response.searchFor[g].score \in Scores
    /\ response.searchFor.channels.edges # <<>>
    /\ response.searchFor.games.edges # <<>>
    /\ response.searchFor.channels.score > response.searchFor.games.score
    /\ widgets.info[1].node = NodeNone /\ widgets.info[2].node.type = "Game"

\* C6: a search group without edges adds no row, not even its header, whatever
\* its score; with only one game edge, scored 3, the rows are the Categories
\* header and the game.
C6_EmptyGroupAddsNoRow ==
    SearchRan
    => LET s == response.searchFor
           withEdges == {g \in GroupNames : s[g].edges # <<>>}
       IN  /\ \A g \in GroupNames \ withEdges :
                \A i \in 1..Len(widgets.titles) : widgets.titles[i] # header(HeaderText(g))
           /\ (\A g \in withEdges : s[g].score \in Scores)
              => /\ widgets.state = "done"
                 /\ Len(widgets.titles) = Len(widgets.info)
                 /\ Rows(widgets) = Flatten([k \in 1..NumBuckets |->
                        Flatten([i \in 1..Len(Groups) |->
                            IF Groups[i] \in withEdges /\ s[Groups[i]].score = k
                            THEN GroupRows(s, Groups[i]) ELSE <<>>])])
           /\ (withEdges = {"games"} /\ Len(s.games.edges) = 1 /\ s.games.score = 3)
              => /\ Len(widgets.info) = 2
                 /\ widgets.titles[1] = header("Categories")
                 /\ widgets.info[2].node = NodeGame(s.games.edges[1].name)

\* one game edge scored 3 and four empty groups scored outside 1..5: two rows
C6_Witness ==
    /\ SearchRan /\ widgets.state = "done"
    /\ {g \in GroupNames : response.searchFor[g].edges # <<>>} = {"games"}
    /\ Len(response.searchFor.games.edges) = 1
    /\ response.searchFor.games.score = 3
    /\ response.searchFor.channels.score = 0
    /\ Len(widgets.titles) = 2 /\ Len(widgets.info) = 2

\* a header label: every span underlined (a shelf title without tokens has no span)
IsHeader(title) == \A i \in 1..Len(title) : title[i].underlined

\* the label the payloads give the entry a node stands for
LabelOf(node) ==
    CASE node.key = "ann" -> "Ann" [] node.key = "bob" -> "Bob" [] node.key = "cat" -> "Cat"
      [] node.key = "eve" -> "Eve" [] node.key = "chess" -> "Chess"
      [] node.key = "v9" -> "Final" [] node.key = "v2" -> "Bob"
      [] node.key = "c7" -> "Clutch" [] node.key = "c1" -> "| Top clip"
      [] node.key = "c5" -> "| Top clip"
      [] OTHER -> ""

\* C7: for every response shape to_widgets returns as many (detail, node) pairs
\* as labels, pair i is the pair of label i's entry, and a header row has a None
\* node.
C7_OnePairPerLabel ==
    widgets.state # "not run"
    => /\ Len(widgets.titles) = Len(widgets.info)
       /\ \A i \in 1..Len(widgets.info) :
            /\ IsHeader(widgets.titles[i]) => widgets.info[i].node = NodeNone
            /\ widgets.info[i].node # NodeNone
               => widgets.titles[i] = plain(LabelOf(widgets.info[i].node))

\* a search result with a channel that has one top clip: its two rows are paired
C7_Witness ==
    /\ SearchRan /\ widgets.state = "done"
    /\ \E i \in 1..Len(widgets.info) : widgets.info[i].node.type = "Clip"
    /\ \E i \in 1..Len(widgets.info) : widgets.info[i].node.type = "Stream"

\* every channel of the payload has broadcast settings
ValidPersonalSections ==
    \A i \in 1..Len(response.personalSections) :
        \A j \in 1..Len(response.personalSections[i].items) :
            response.personalSections[i].items[j].broadcastSettings

\* C8: a valid PersonalSection payload projects to one header row with a None
\* node per section, followed by one row per channel with a Stream node keyed by
\* the login, in payload order: the sum of (1 + M_i) rows in all.
C8_PersonalSectionRows ==
    (response.kind = "PersonalSection" /\ widgets.state # "not run" /\ ValidPersonalSections)
    => LET ps == response.personalSections
       IN  /\ widgets.state = "done"
           /\ Len(widgets.titles) = Len(widgets.info)
           /\ Len(widgets.info) = SumTo([i \in 1..Len(ps) |-> 1 + Len(ps[i].items)], Len(ps))
           /\ Rows(widgets) = Flatten([i \in 1..Len(ps) |->
                  <<Row(header(ps[i].localizedFallback), "empty", NodeNone)>>
                  \o [j \in 1..Len(ps[i].items) |->
                        Row(plain(ps[i].items[j].displayName), "channel",
                            NodeStream(ps[i].items[j].login))]])

\* two sections of one channel each, four rows
C8_Witness ==
    /\ response.kind = "PersonalSection" /\ widgets.state = "done"
    /\ Len(response.personalSections) = 2
    /\ \A i \in 1..2 : Len(response.personalSections[i].items) = 1
    /\ response.personalSections[1].items[1].login # response.personalSections[2].items[1].login
    /\ Len(widgets.info) = 4

\* the header labels of a Shelves projection: the labels of the rows with a None node
ShelfHeaders(w) ==
    LET headers == SelectSeq(Rows(w), LAMBDA r : r.node = NodeNone)
    IN  [i \in 1..Len(headers) |-> headers[i].title]

\* C9: a shelf with a None title token is headed by its fallback title, whatever
\* its other tokens are; a shelf without one is headed by its tokens in order.
C9_ShelfHeaderFallback ==
    (response.kind = "Shelves" /\ widgets.state # "not run")
    => /\ widgets.state = "done"
       /\ Len(widgets.titles) = Len(widgets.info)
       /\ Len(ShelfHeaders(widgets)) = Len(response.shelves)
       /\ \A i \in 1..Len(response.shelves) :
            LET title == response.shelves[i].title
                tokens == title.localizedTitleTokens
                label == ShelfHeaders(widgets)[i]
            IN  IF \E j \in 1..Len(tokens) : tokens[j].kind = "None"
                THEN label = <<Span(title.fallbackLocalizedTitle, TRUE, FALSE)>>
                ELSE /\ Len(label) = Len(tokens)
                     /\ \A j \in 1..Len(tokens) :
                          /\ label[j].content = tokens[j].text
                          /\ label[j].underlined
                          /\ label[j].bold = (tokens[j].kind = "TextToken" /\ tokens[j].hasEmphasis)

\* a shelf whose second token is None and whose first is not
C9_Witness ==
    /\ response.kind = "Shelves" /\ widgets.state = "done"
    /\ Len(response.shelves) >= 1
    /\ Len(response.shelves[1].title.localizedTitleTokens) >= 2
    /\ response.shelves[1].title.localizedTitleTokens[1].kind = "Game"
    /\ response.shelves[1].title.localizedTitleTokens[2].kind = "None"
    /\ widgets.titles[1] = header(FallbackTitle)

(***************************************************************************)
(* Properties of quality selection.                                        *)
(***************************************************************************)
Shortcuts == {best, worst, audio_only}

\* a clip rendition the label names once its last character is dropped
ClipMatches(label, videoQualities) ==
    {i \in 1..Len(videoQualities) :
        videoQualities[i].quality = SubSeq(label, 1, Len(label) - 1)}

\* positions of the quality lines of a playlist; the URL line follows each
QualityLines(lines) == {j \in 4..(Len(lines) - 1) : j % 2 = 0}

\* the quality lines of a playlist that a label is a substring of
VodMatches(label, lines) == {j \in QualityLines(lines) : contains(lines[j], label)}

\* whether a ladder entry settles the choice for the node at hand
Deciding(entry) ==
    \/ entry \in Shortcuts
    \/ /\ selected.type = "Clip"
       /\ ClipMatches(entry, renditions) # {}
    \/ /\ selected.type = "Video"
       /\ VodMatches(entry, renditions) # {}

\* the position of the first ladder entry that settles the choice, 0 if none
Decider ==
    LET ds == {k \in 1..Len(qualities) : Deciding(qualities[k])}
    IN  IF ds = {} THEN 0 ELSE CHOOSE k \in ds : \A m \in ds : k <= m

\* URLs of the renditions the server lists, in its order
Urls ==
    IF selected.type = "Clip"
    THEN [i \in 1..Len(renditions) |-> renditions[i].sourceURL]
    ELSE [i \in 1..Cardinality(QualityLines(renditions)) |-> renditions[2 * i + 3]]

SelectRan == played # NotPlayed

\* C3: selecting a Clip or a Video with a non-empty rendition list always
\* plays exactly one of the listed URLs and never fails; a deciding 'best'
\* plays the first rendition, a deciding 'worst' or 'audio_only' the last.
C3_SelectionTotal ==
    (SelectRan /\ selected.type \in {"Clip", "Video"} /\ Len(Urls) > 0) =>
        /\ played.state = "played"
        /\ \E i \in 1..Len(Urls) : played.url = Urls[i]
        /\ (Decider # 0 /\ qualities[Decider] = best) => played.url = Urls[1]
        /\ (Decider # 0 /\ qualities[Decider] \in {worst, audio_only}) =>
              played.url = Urls[Len(Urls)]

\* C4: for a Video the first ladder entry that matches decides: the URL played
\* is the line that follows a quality line containing that label, whatever
\* the later entries are and however many quality lines contain it; when no
\* entry decides, the first rendition's URL is played.
C4_FirstMatchDecides ==
    (SelectRan /\ selected.type = "Video" /\ Len(Urls) > 0) =>
        /\ Decider = 0 => played = Play(Urls[1])
        /\ (Decider # 0 /\ qualities[Decider] \notin Shortcuts) =>
              /\ played.state = "played"
              /\ \E j \in VodMatches(qualities[Decider], renditions) :
                    played.url = renditions[j + 1]

\* C5: for a Clip a ladder label matches the rendition whose quality is the
\* label without its trailing p: the first ladder entry with such a rendition
\* (or a shortcut) decides and the first matching rendition is played; with
\* the ladder 720p, best and renditions 1080, 480 the first rendition plays.
C5_ClipLabelMatch ==
    (SelectRan /\ selected.type = "Clip" /\ Len(renditions) > 0) =>
        /\ played.state = "played"
        /\ (Decider # 0 /\ qualities[Decider] \notin Shortcuts) =>
              LET hits == ClipMatches(qualities[Decider], renditions)
              IN  \E i \in hits : /\ \A j \in hits : i <= j
                                  /\ played.url = renditions[i].sourceURL
        /\ (Decider = 0 \/ qualities[Decider] = best) =>
              played.url = renditions[1].sourceURL
        /\ ( /\ qualities = <<q720p, best>>
             /\ renditions = ClipQualities(<< <<"1", "0", "8", "0">>, <<"4", "8", "0">> >>) ) =>
              played.url = RenditionUrl(1)

\* a clip whose second rendition is the one the ladder's first label names
C5_Witness ==
    /\ selected.type = "Clip"
    /\ qualities = <<q720p, best>>
    /\ renditions = ClipQualities(<< <<"1", "0", "8", "0">>, <<"7", "2", "0">> >>)
    /\ played = Play(RenditionUrl(2))

(***************************************************************************)
(* Properties of format_seconds.                                           *)
(***************************************************************************)
FormatRan == formatted # NotFormatted

\* the unit and number for s when months begin at `month` seconds
ByIntervals(s, month) ==
    CASE s < 60 -> Text(s, " Seconds")
      [] 60 <= s /\ s < 3600 -> Text(s \div 60, " Minutes")
      [] 3600 <= s /\ s < 86400 -> Text(s \div 3600, " Hours")
      [] 86400 <= s /\ s < month -> Text(s \div 86400, " Days")
      [] month <= s /\ s < 31536000 -> Text(s \div month, " Months")
      [] OTHER -> Text(s \div 31536000, " Years")

\* C10: format_seconds picks its unit by half-open intervals with inclusive
\* lower bounds 60, 3600, 86400, 2592000 (30 days) and 31536000, and shows the
\* integer quotient of the seconds by the unit; 30 gives 30 Seconds, 90 gives
\* 1 Minutes, 86400 gives 1 Days.
C10_UnitByInterval ==
    FormatRan =>
        /\ formatted = ByIntervals(seconds, 2592000)
        /\ seconds = 30 => formatted = Text(30, " Seconds")
        /\ seconds = 90 => formatted = Text(1, " Minutes")
        /\ seconds = 86400 => formatted = Text(1, " Days")

\* thirty days are already one month
C10_Witness ==
    /\ seconds = 2592000
    /\ formatted = Text(1, " Months")

\* C10 as stated: the boundary between days and months lies at about
\* 2,630,000 seconds, a twelfth of a year
C10_MonthAtTwelfthOfYear ==
    FormatRan => formatted = ByIntervals(seconds, 2628000)

(***************************************************************************)
(* Properties of navigation.                                               *)
(***************************************************************************)
\* C2: a Back on a Category or Search page that leaves at least one row to
\* draw makes the owned predecessor the current page, sends that page's
\* request again and shows its answer, and sets the cursor to the smaller of
\* the index saved in that page and the last row of the new listing.
C2_BackRestoresSelection ==
    [][ (key' = "Back" /\ page[1].kind # "Home" /\ status' = "running") =>
            /\ page' = Tail(page)
            /\ requested' = Page_request(page[2])
            /\ response' \in Served(requested')
            /\ widgets' = to_widgets(response')
            /\ list_state' = Min(page[2].selection, Len(widgets'.info) - 1)
      ]_vars

\* back on a page whose listing has become shorter than the saved index
C2_Witness ==
    /\ key = "Back"
    /\ status = "running"
    /\ list_state > 0
    /\ list_state = Len(widgets.info) - 1
    /\ page[1].selection > list_state

(***************************************************************************)
(* Properties of select's return value and of the + and - keys.            *)
(***************************************************************************)
\* C11: select returns Some(name) exactly for a Category node, name being the
\* category's name, and None for Stream, Clip, Video and None nodes; on a
\* Category or a None node it sends no request and starts no process.
C11_SelectReturn ==
    (SelectRan /\ played.state # "panic") =>
        /\ returned = IF selected.type = "Game" THEN Some(selected.key) ELSE None
        /\ selected.type \in {"Game", "None"} =>
              /\ requested = NoRequest
              /\ played.state \notin {"played", "streamlink"}

\* a category selected
C11_Witness ==
    /\ selected = NodeGame("Chess")
    /\ played.state = "category"
    /\ returned = Some("Chess")

\* the order of the quality names
QualityOrder == <<audio_only, worst, q160p, q360p, q480p, q720p, q720p60, q1080p60, best>>
Rank(quality) == CHOOSE i \in 1..Len(QualityOrder) : QualityOrder[i] = quality

\* C12: the preferred quality is best when none is configured; + moves it one
\* step up and - one step down the order audio_only < worst < 160p < 360p <
\* 480p < 720p < 720p60 < 1080p60 < best, + at best and - at audio_only leave
\* it where it is, and it always is one of the nine names.
C12_QualitySteps ==
    /\ initial_qualities(<<>>) = <<best>>
    /\ [](qualities[1] \in QualityNames)
    /\ [][ /\ key' = "+" =>
                /\ Rank(qualities'[1]) = Min(Rank(qualities[1]) + 1, Len(QualityOrder))
                /\ Tail(qualities') = Tail(qualities)
           /\ key' = "-" =>
                /\ Rank(qualities'[1]) = IF Rank(qualities[1]) = 1 THEN 1
                                         ELSE Rank(qualities[1]) - 1
                /\ Tail(qualities') = Tail(qualities)
       ]_vars

\* - pressed down to the lowest name
C12_Witness ==
    /\ key = "-"
    /\ qualities[1] = audio_only

(***************************************************************************)
(* Properties of the page stack, the home key, refresh and the session's   *)
(* end.                                                                    *)
(***************************************************************************)
\* what a page is, its saved selection apart
Identity(p) == [kind |-> p.kind, name |-> p.name]
Identities(ps) == [i \in 1..Len(ps) |-> Identity(ps[i])]

\* C13: the pages form a last-in-first-out stack.  Home is its bottom and
\* only its bottom; a forward navigation puts one page on top of the pages
\* there were; a back takes exactly the top page off, so backs visit the pages
\* in reverse order of entry, down to Home, where back leaves the page alone;
\* no other key but home touches the stack.
C13_PageStackLifo ==
    /\ [](/\ page # <<>>
          /\ page[Len(page)].kind = "Home"
          /\ \A i \in 1..(Len(page) - 1) : page[i].kind # "Home")
    /\ [][ /\ (key' \in {"Enter", "Search"} /\ page' # page) =>
                /\ Len(page') = Len(page) + 1
                /\ Identities(Tail(page')) = Identities(page)
                /\ Tail(Tail(page')) = Tail(page)
           /\ key' = "Back" => page' = IF Len(page) = 1 THEN page ELSE Tail(page)
           /\ key' \notin {"Enter", "Search", "Back", "Home"} => page' = page
       ]_vars

\* back from a category that was entered from a search, onto that search
C13_Witness ==
    /\ key = "Back"
    /\ status = "running"
    /\ selected.type = "Game"
    /\ Identities(page) = <<[kind |-> "Search", name |-> "chess"], [kind |-> "Home", name |-> ""]>>

\* C14: the home key makes Home the current page with no predecessor, puts
\* the cursor on row 0 and fetches the home listing; a back that follows it
\* stays on that Home page.
C14_HomeShortcut ==
    [][ /\ key' = "Home" =>
             /\ page' = <<HomePage(0)>>
             /\ list_state' = 0
             /\ requested' = Page_request(HomePage(0))
             /\ response' \in Served(requested')
             /\ status' = "running" => widgets' = to_widgets(response')
        /\ (key = "Home" /\ key' = "Back") => page' = <<HomePage(0)>>
      ]_vars

\* home pressed after a category had been entered
C14_Witness ==
    /\ key = "Home"
    /\ status = "running"
    /\ selected.type = "Game"
    /\ page = <<HomePage(0)>>
    /\ requested = Page_request(HomePage(0))

\* C15: back on the Home page leaves the page and the listing as they are and
\* sends no request; it only sets the cursor to row 0.
C15_BackOnHome ==
    [][ (key' = "Back" /\ page[1].kind = "Home") =>
            /\ page' = page
            /\ requested' = NoRequest
            /\ response' = response
            /\ widgets' = widgets
            /\ list_state' = 0
      ]_vars

\* back on a Home page of several rows
C15_Witness ==
    /\ key = "Back"
    /\ page[1].kind = "Home"
    /\ requested = NoRequest
    /\ list_state = 0
    /\ Len(widgets.info) > 1

\* C16: a refresh that leaves at least one row to draw sends the current
\* page's request again and shows its answer, leaves the page and its
\* predecessors as they are, and sets the cursor to the smaller of where it
\* was and the last row of the new listing.
C16_RefreshClampsCursor ==
    [][ (key' = "Refresh" /\ status' = "running") =>
            /\ page' = page
            /\ requested' = Page_request(page[1])
            /\ response' \in Served(requested')
            /\ widgets' = to_widgets(response')
            /\ list_state' = Min(list_state, Len(widgets'.info) - 1)
      ]_vars

\* a refresh that left the cursor below the top
C16_Witness ==
    /\ key = "Refresh"
    /\ status = "running"
    /\ list_state > 0

\* C17: a listing of zero rows leaves the session running.
C17_ZeroRowsKeepRunning ==
    (widgets.state = "done" /\ Len(widgets.info) = 0) => status # "panicked"

\* C18: whenever the session has ended, by the quit key or by a panic, raw
\* mode is off and the alternate screen is left; a response that is no valid
\* JSON and a player that does not start end the session.
C18_TerminalRestoredAtExit ==
    /\ status \in {"quit", "panicked"} => terminal = Cooked
    /\ response = Malformed => status = "panicked"
    /\ played.state \in {"malformed", "spawn failed"} => status = "panicked"

\* the player did not start
C18_Witness ==
    /\ played.state = "spawn failed"
    /\ status = "panicked"
    /\ terminal = Cooked

\* C19: the rows shown are the projection of the answer to the current
\* page's request: a key that changes the page or the rows has sent the new
\* current page's request and shows the projection of its answer before the
\* next key is read.
C19_RowsProjectPageRequest ==
    /\ [](status = "running" => widgets = to_widgets(response))
    /\ [][ (status' = "running" /\ (page' # page \/ widgets' # widgets)) =>
               /\ requested' = Page_request(page'[1])
               /\ response' \in Served(requested')
               /\ widgets' = to_widgets(response')
         ]_vars

\* a search whose rows are on the screen
C19_Witness ==
    /\ key = "Search"
    /\ status = "running"
    /\ page[1].kind = "Search"
    /\ response.kind = "SearchFor"
    /\ widgets = to_widgets(response)

(***************************************************************************)
(* The chat overlay: the select loop of play_stream.                       *)
(***************************************************************************)
\* add_to_queue: drop the first item when the queue is at the limit
\* (pop_front does nothing on an empty queue), then push
add_to_queue(queue, item, limit) ==
    Append(IF Len(queue) = limit /\ queue # <<>> THEN Tail(queue) ELSE queue, item)

\* Event::Resize: queue.drain(..queue.len() - (height - 3)) when height - 3 < queue.len()
truncated(queue, limit) ==
    IF limit < Len(queue) THEN SubSeq(queue, Len(queue) - limit + 1, Len(queue)) ELSE queue

\* the terminal heights the overlay runs at: the three rows of the tab bar
\* and up
Heights == 3..MaxHeight

\* what streamlink prints, and what the IRC server sends as its welcome
StreamlinkLines == {"[cli][info] Opening stream"}
Welcomes == {"Welcome, GLHF!"}
IrcFailedLine == "IRC connection failed, retrying"

\* the tags of a ROOMSTATE message: all of them when the channel is joined,
\* the changed one when a setting changes
Tag(name, value) == [name |-> name, value |-> value]
JoinState ==
    <<Tag("emote-only", 0), Tag("followers-only", -1), Tag("r9k", 0),
      Tag("room-id", 1), Tag("slow", 0), Tag("subs-only", 0)>>
SlowChanged == <<Tag("room-id", 1), Tag("slow", 120)>>
RoomStates == {JoinState, SlowChanged}

\* the item one tag of a ROOMSTATE adds to info, <<>> for a tag that is ignored
Word(w) == Text(0, w)
InfoItem(label, value) == <<[label |-> label, value |-> value]>>
OnOff(value) == IF value = 1 THEN Word("On") ELSE Word("Off")
roomstate_item(tag) ==
    CASE tag.name = "emote-only" -> InfoItem("Emote only: ", OnOff(tag.value))
      [] tag.name = "followers-only" ->
            InfoItem("Followers only: ",
                     IF tag.value = -1 THEN Word("Off")
                     ELSE IF tag.value = 0 THEN Word("Any followers")
                     ELSE format_seconds(tag.value * 60))
      [] tag.name = "r9k" -> InfoItem("Unique chat: ", OnOff(tag.value))
      [] tag.name = "slow" ->
            InfoItem("Slow chat: ",
                     IF tag.value = 0 THEN Word("Off") ELSE format_seconds(tag.value))
      [] tag.name = "subs-only" -> InfoItem("Subs only: ", OnOff(tag.value))
      [] OTHER -> <<>>

\* "ROOMSTATE": for tag in message.tags, info.push
RECURSIVE roomstate(_, _)
roomstate(items, tags) ==
    IF tags = <<>> THEN items
    ELSE roomstate(items \o roomstate_item(Head(tags)), Tail(tags))

\* connect_irc_client: Client::from_config(..).await.expect(..) and
\* client.stream().expect(..) panic when the connection cannot be opened
connect_irc_client(opened) == IF opened THEN "running" ELSE "panicked"

InitChat ==
    /\ overlay = "running"
    /\ tab = 0
    /\ chat = <<>>
    /\ log = <<>>
    /\ info = <<>>
    /\ height \in Heights
    /\ event = "start"
    /\ ProjIdle
    /\ SelIdle
    /\ FmtIdle
    /\ NavIdle

\* Ok(Some(line)) = stdout_reader.next_line() / stderr_reader.next_line()
StreamlinkLine ==
    /\ overlay = "running"
    /\ \E line \in StreamlinkLines : log' = add_to_queue(log, line, height - 3)
    /\ Len(log') <= MaxQueue
    /\ event' = "streamlink"
    /\ UNCHANGED <<projVars, selVars, fmtVars, navVars, overlay, tab, chat, info, height>>

\* next = client_stream.next() with Some(Ok(message)): handle_irc_command,
\* here for the welcome message (Command::Response)
IrcMessage ==
    /\ overlay = "running"
    /\ \E welcome \in Welcomes : chat' = add_to_queue(chat, welcome, height - 3)
    /\ Len(chat') <= MaxQueue
    /\ event' = "IRC message"
    /\ UNCHANGED <<projVars, selVars, fmtVars, navVars, overlay, tab, log, info, height>>

\* next = client_stream.next() with Some(Ok(message)): handle_irc_command,
\* here for "ROOMSTATE"
RoomState ==
    /\ overlay = "running"
    /\ \E tags \in RoomStates : info' = roomstate(info, tags)
    /\ Len(info') <= MaxInfo
    /\ event' = "ROOMSTATE"
    /\ UNCHANGED <<projVars, selVars, fmtVars, navVars, overlay, tab, chat, log, height>>

\* next = client_stream.next() with anything else: log it and connect again
IrcFailure ==
    /\ overlay = "running"
    /\ log' = add_to_queue(log, IrcFailedLine, height - 3)
    /\ Len(log') <= MaxQueue
    /\ \E opened \in BOOLEAN : overlay' = connect_irc_client(opened)
    /\ event' = "IRC failed"
    /\ UNCHANGED <<projVars, selVars, fmtVars, navVars, tab, chat, info, height>>

\* KeyCode::Left
TabLeft ==
    /\ overlay = "running"
    /\ tab' = IF tab = 0 THEN 0 ELSE tab - 1
    /\ event' = "Left"
    /\ UNCHANGED <<projVars, selVars, fmtVars, navVars, overlay, chat, log, info, height>>

\* KeyCode::Right
TabRight ==
    /\ overlay = "running"
    /\ tab' = IF tab # 2 THEN tab + 1 ELSE tab
    /\ event' = "Right"
    /\ UNCHANGED <<projVars, selVars, fmtVars, navVars, overlay, chat, log, info, height>>

\* Event::Resize
Resize ==
    /\ overlay = "running"
    /\ \E h \in Heights :
          /\ height' = h
          /\ chat' = truncated(chat, h - 3)
          /\ log' = truncated(log, h - 3)
    /\ event' = "Resize"
    /\ UNCHANGED <<projVars, selVars, fmtVars, navVars, overlay, tab, info>>

\* KeyCode::Char('Q' | 'q') => break
ChatQuit ==
    /\ overlay = "running"
    /\ overlay' = "returned"
    /\ event' = "q"
    /\ UNCHANGED <<projVars, selVars, fmtVars, navVars, tab, chat, log, info, height>>

NextChat ==
    \/ StreamlinkLine
    \/ IrcMessage
    \/ RoomState
    \/ IrcFailure
    \/ TabLeft
    \/ TabRight
    \/ Resize
    \/ ChatQuit

SpecChat == InitChat /\ [][NextChat]_vars

\* C20: a failure of the IRC stream never ends the session: the step that
\* handles it adds a line to the log and leaves the overlay running, and the
\* overlay stops running only by the quit key.
C20_IrcFailureNotFatal ==
    /\ event = "IRC failed" => overlay = "running" /\ log[Len(log)] = IrcFailedLine
    /\ overlay # "running" => overlay = "returned" /\ event = "q"

\* C21: each queue of the overlay holds at most height - 3 items after any
\* interleaving of incoming lines and resizes.
C21_QueuesBounded == Len(chat) <= height - 3 /\ Len(log) <= height - 3

\* C30: the Info list holds at most five entries, one per room setting.
C30_InfoAtMostFive ==
    /\ Len(info) <= 5
    /\ \A i, j \in 1..Len(info) : info[i].label = info[j].label => i = j

(***************************************************************************)
(* Further properties of the projection.                                   *)
(***************************************************************************)
\* the nodes of the rows, in row order
RowNodes(w) == [i \in 1..Len(w.info) |-> w.info[i].node]

\* the groups with edges whose score is no index of a bucket
OutOfRange(s) == {g \in GroupNames : s[g].edges # <<>> /\ s[g].score \notin 1..5}

\* C23: a search group with at least one edge and a score of 0 or above 5
\* makes the projection fail, with no rows; a group without edges never does,
\* whatever its score.
C23_ScoreOutOfRangeFails ==
    SearchRan =>
        /\ OutOfRange(response.searchFor) # {} =>
              widgets = [state |-> "panic", titles |-> <<>>, info |-> <<>>]
        /\ OutOfRange(response.searchFor) = {} => widgets.state = "done"

\* a game scored 0 beside empty groups
C23_Witness ==
    /\ SearchRan
    /\ response.searchFor.games.edges # <<>>
    /\ response.searchFor.games.score = 0
    /\ response.searchFor.channels.edges = <<>>
    /\ widgets.state = "panic"

\* a payload whose only group with edges is Channels
OnlyChannels ==
    /\ SearchRan
    /\ widgets.state = "done"
    /\ response.searchFor.channels.edges # <<>>
    /\ \A g \in GroupNames \ {"channels"} : response.searchFor[g].edges = <<>>

\* the nodes a channel entry adds: its own, and its one top clip's
ChannelNodes(user) ==
    << IF ~user.startedAt THEN NodeNone
       ELSE IF user.stream THEN NodeStream(user.login)
       ELSE IF Len(user.latestVideo) = 0 THEN NodeNone
       ELSE NodeVideo(user.latestVideo[1]) >>
    \o IF Len(user.topClip) = 1 THEN <<NodeClip(user.topClip[1])>> ELSE <<>>

\* C24: the node of a channel entry is a Stream node keyed by the login when
\* the user has broadcast before and is live, a None node when the user has
\* never broadcast or is offline without any video, a Video node with the id of
\* the first video when the user has broadcast before and is offline; exactly
\* one top clip adds a Clip row keyed by its slug right after the channel's row.
C24_ChannelNode ==
    OnlyChannels =>
        RowNodes(widgets) =
            <<NodeNone>> \o Flatten([i \in 1..Len(response.searchFor.channels.edges) |->
                                        ChannelNodes(response.searchFor.channels.edges[i])])

\* an offline user with a video before an offline user without one
C24_Witness ==
    /\ OnlyChannels
    /\ Len(widgets.info) = 4
    /\ widgets.info[2].node.type = "Video"
    /\ widgets.info[3].node = NodeNone
    /\ widgets.info[4].node.type = "Clip"

\* C24 as the specification states it: every user who has broadcast before
\* and is offline gets a Video node
C24_OfflineAlwaysVideo ==
    (OnlyChannels /\ Len(response.searchFor.channels.edges) = 1) =>
        LET user == response.searchFor.channels.edges[1]
        IN  /\ (user.startedAt /\ user.stream) => widgets.info[2].node = NodeStream(user.login)
            /\ ~user.startedAt => widgets.info[2].node = NodeNone
            /\ (user.startedAt /\ ~user.stream) => widgets.info[2].node.type = "Video"
            /\ Len(user.topClip) = 1 =>
                  Len(widgets.info) = 3 /\ widgets.info[3].node = NodeClip(user.topClip[1])

ShelvesRan == response.kind = "Shelves" /\ widgets.state # "not run"

\* the nodes of the entries of a shelf that get a row
RECURSIVE KeptNodes(_)
KeptNodes(entries) ==
    IF entries = <<>> THEN <<>>
    ELSE (IF \/ Head(entries).node.type \in {"Clip", "Game"}
             \/ Head(entries).node.type = "Stream" /\ Head(entries).broadcastSettings
          THEN <<Head(entries).node>> ELSE <<>>)
         \o KeptNodes(Tail(entries))

\* C25: each shelf gives one header row with a None node, then one row per
\* entry that is a Clip, a Category or a Stream with broadcast settings, in
\* payload order; any other entry gives neither a label nor a node.
C25_ShelfRows ==
    ShelvesRan =>
        /\ widgets.state = "done"
        /\ Len(widgets.titles) = Len(widgets.info)
        /\ RowNodes(widgets) =
              Flatten([i \in 1..Len(response.shelves) |->
                          <<NodeNone>> \o KeptNodes(response.shelves[i].content)])

\* a shelf with a Stream that is kept and one that is dropped
C25_Witness ==
    /\ ShelvesRan
    /\ Len(response.shelves) = 1
    /\ Len(response.shelves[1].content) = 3
    /\ response.shelves[1].content[1].node.type = "Stream"
    /\ ~response.shelves[1].content[1].broadcastSettings
    /\ response.shelves[1].content[2].node.type = "Stream"
    /\ response.shelves[1].content[2].broadcastSettings
    /\ response.shelves[1].content[3].node.type = "Clip"
    /\ RowNodes(widgets) = <<NodeNone, response.shelves[1].content[2].node,
                             response.shelves[1].content[3].node>>

(***************************************************************************)
(* Further properties of the event loop.                                   *)
(***************************************************************************)
\* C22: the page left by a forward navigation, into a category or into a
\* search, stores the row the cursor was on when the key was pressed.
C22_ForwardSavesCursor ==
    [][ (key' \in {"Enter", "Search"} /\ Len(page') > Len(page)) =>
            get_selection(page'[2]) = list_state
      ]_vars

\* C26: a forward navigation puts the cursor on row 0 and fetches the new
\* page's listing; entering a category makes Category(name) of the activated
\* node's name the current page, a search makes Search(query) of the typed
\* query the current page, and the page that was current is the new page's
\* predecessor, above the predecessors it had.
C26_ForwardNavigation ==
    [][ /\ (key' = "Enter" /\ selected'.type = "Game") =>
              /\ page'[1] = [kind |-> "Game", name |-> selected'.key, selection |-> 0]
              /\ selected' = widgets.info[list_state + 1].node
        /\ key' = "Search" =>
              page'[1] = [kind |-> "Search", name |-> query', selection |-> 0]
        /\ ((key' = "Enter" /\ selected'.type = "Game") \/ key' = "Search") =>
              /\ list_state' = 0
              /\ Identities(Tail(page')) = Identities(page)
              /\ Tail(Tail(page')) = Tail(page)
              /\ requested' = Page_request(page'[1])
              /\ response' \in Served(requested')
              /\ status' = "running" => widgets' = to_widgets(response')
      ]_vars

\* a second search, typed on the page of the first
C26_Witness ==
    /\ key = "Search"
    /\ status = "running"
    /\ query = "go"
    /\ Identities(page) = <<[kind |-> "Search", name |-> "go"],
                            [kind |-> "Search", name |-> "chess"],
                            [kind |-> "Home", name |-> ""]>>
    /\ list_state = 0

\* C27: every change of the current page is an entry into a category by
\* activating a category node, an entry into a search by the search key, both
\* from any kind of page, a return to Home by the home key, or a return from
\* a category or a search to its predecessor by back.
C27_PageTransitions ==
    [][ page' # page =>
           CASE key' = "Enter" ->
                    /\ selected'.type = "Game"
                    /\ page'[1].kind = "Game"
                    /\ Identities(Tail(page')) = Identities(page)
             [] key' = "Search" ->
                    /\ page'[1].kind = "Search"
                    /\ Identities(Tail(page')) = Identities(page)
             [] key' = "Home" -> page' = <<HomePage(0)>>
             [] key' = "Back" -> page[1].kind \in {"Game", "Search"} /\ page' = Tail(page)
             [] OTHER -> FALSE
      ]_vars

\* a category entered from the rows of a search
C27_Witness ==
    /\ key = "Enter"
    /\ status = "running"
    /\ Len(page) = 3
    /\ page[1].kind = "Game"
    /\ page[2].kind = "Search"

\* C27 as the specification states it: a category is entered only from Home
\* or from a category, a search only from Home or from a category
C27_OnlyListedTransitions ==
    [][ page' # page =>
           CASE key' = "Enter" -> page[1].kind \in {"Home", "Game"} /\ page'[1].kind = "Game"
             [] key' = "Search" -> page[1].kind \in {"Home", "Game"} /\ page'[1].kind = "Search"
             [] key' = "Home" -> page'[1].kind = "Home"
             [] key' = "Back" -> page[1].kind \in {"Game", "Search"} /\ page' = Tail(page)
             [] OTHER -> FALSE
      ]_vars

C29_CursorInRange ==
    /\ []((widgets.state = "done" /\ Len(widgets.info) >= 1) =>
             list_state \in 0..(Len(widgets.info) - 1))
    /\ [][ /\ (key' = "Down" /\ list_state = Len(widgets.info) - 1) =>
                 list_state' = list_state
           /\ (key' = "Up" /\ list_state = 0) => list_state' = 0
         ]_vars

\* PageDown ending on the last of at least four rows
C29_Witness ==
    /\ key = "PageDown"
    /\ status = "running"
    /\ Len(widgets.info) >= 4
    /\ list_state = Len(widgets.info) - 1

====
